---- MODULE Spec2Model ----
(***************************************************************************)
(* Shotcraft inventory (src/app.py): a Streamlit script bound to two       *)
(* worksheets of a Google Sheet, FORMULA and INVENTORY.                    *)
(*                                                                         *)
(* Modelling conventions                                                   *)
(*   - A worksheet cell is text: a sequence of one-character strings.      *)
(*   - A DataFrame cell is a Value: Num(n), Str(text) or NaN.              *)
(*   - Quantities are exact integers (counts of the smallest unit kept in  *)
(*     the sheet); binary floating point rounding is not modelled.         *)
(*   - Component names are non-numeric text, so the Component column is    *)
(*     never turned into numbers by read_ws_df.                            *)
(***************************************************************************)
EXTENDS Integers, Sequences, FiniteSets, TLC

VARIABLES
    formulaSheet,   \* the FORMULA worksheet of the store: [exists, cells]
    invSheet,       \* the INVENTORY worksheet of the store: [exists, cells]
    pc,             \* position of the session's script
    comps,          \* load_data's comps: rows [Component, Per_Case, UOM]
    onhand,         \* load_data's onhand: rows [Component, On_Hand]
    edits,          \* st.session_state["edit_table"]: row index -> On_Hand typed by the user
    edited,         \* st.data_editor's return value: rows [Component, UOM, On_Hand, Per_Case]
    cases,          \* st.number_input "Cases sold"
    display,        \* compute's display
    max_sell,       \* compute's max_sellable
    shortages,      \* compute's shortages
    sync,           \* the last writeback of the session: [status, at, values, loads]
    config,         \* st.query_params, st.secrets and st.session_state
    resolved,       \* SHEET_ID, FORMULA_WS, INVENTORY_WS (lines 93-94)
    writers,        \* sessions inside write_onhand: session -> [pc, values, clearedLate]
    lastWriter      \* the session whose ws.update ran last, 0 when none has

vars == <<formulaSheet, invSheet, pc, comps, onhand, edits, edited, cases,
          display, max_sell, shortages, sync, config, resolved, writers, lastWriter>>

configVars == <<config, resolved>>
raceVars   == <<writers, lastWriter>>
frameVars  == <<comps, onhand, edits, edited, cases, display, max_sell, shortages, sync>>

----------------------------------------------------------------------------
(* Bounds *)

\* total number of rows of the two tables handed to compute
MaxRows == 3
\* largest order size typed into the "Cases sold" input
MaxCases == 3

----------------------------------------------------------------------------
(* Text and values *)

Digits == <<"0", "1", "2", "3", "4", "5", "6", "7", "8", "9">>

DigitOf == [c \in {Digits[i] : i \in 1..10} |-> (CHOOSE i \in 1..10 : Digits[i] = c) - 1]

\* the value of a digit character, or -1
DigitValue(c) == IF c \in DOMAIN DigitOf THEN DigitOf[c] ELSE 0 - 1

\* code points of the characters the model uses (Python compares str by code point)
CharCode ==
    ("+" :> 43) @@ ("-" :> 45) @@
    ("0" :> 48) @@ ("1" :> 49) @@ ("2" :> 50) @@ ("3" :> 51) @@ ("4" :> 52) @@
    ("5" :> 53) @@ ("6" :> 54) @@ ("7" :> 55) @@ ("8" :> 56) @@ ("9" :> 57) @@
    ("A" :> 65) @@ ("B" :> 66) @@ ("C" :> 67) @@ ("H" :> 72) @@ ("M" :> 77) @@
    ("N" :> 78) @@ ("O" :> 79) @@ ("P" :> 80) @@ ("U" :> 85) @@ ("Z" :> 90) @@
    ("_" :> 95) @@
    ("a" :> 97) @@ ("c" :> 99) @@ ("d" :> 100) @@ ("e" :> 101) @@ ("m" :> 109) @@
    ("n" :> 110) @@ ("o" :> 111) @@ ("p" :> 112) @@ ("r" :> 114) @@ ("s" :> 115) @@
    ("t" :> 116) @@ ("x" :> 120)

Num(n) == [t |-> "num", n |-> n, s |-> <<>>]
Str(s) == [t |-> "str", n |-> 0, s |-> s]
NaN    == [t |-> "nan", n |-> 0, s |-> <<>>]

\* column labels
ComponentHdr == <<"C", "o", "m", "p", "o", "n", "e", "n", "t">>
PerCaseHdr   == <<"P", "e", "r", "_", "C", "a", "s", "e">>
OnHandHdr    == <<"O", "n", "_", "H", "a", "n", "d">>
UomHdr       == <<"U", "O", "M">>
NotesHdr     == <<"N", "o", "t", "e", "s">>

RECURSIVE DigitsValue(_, _)
\* the number written by a non-empty run of digits, acc being the value read so far
DigitsValue(txt, acc) ==
    IF txt = <<>> THEN acc
    ELSE DigitsValue(Tail(txt), 10 * acc + DigitValue(Head(txt)))

AllDigits(txt) == txt # <<>> /\ \A i \in 1..Len(txt) : DigitValue(txt[i]) >= 0

\* pd.to_numeric on one string: the empty string is NaN, a signed run of digits
\* is its number, anything else does not parse ("bad")
ParseText(txt) ==
    IF txt = <<>> THEN [ok |-> TRUE, v |-> NaN]
    ELSE IF Head(txt) = "-" /\ AllDigits(Tail(txt))
         THEN [ok |-> TRUE, v |-> Num(0 - DigitsValue(Tail(txt), 0))]
    ELSE IF Head(txt) = "+" /\ AllDigits(Tail(txt))
         THEN [ok |-> TRUE, v |-> Num(DigitsValue(Tail(txt), 0))]
    ELSE IF AllDigits(txt)
         THEN [ok |-> TRUE, v |-> Num(DigitsValue(txt, 0))]
    ELSE [ok |-> FALSE, v |-> NaN]

\* pd.to_numeric on one cell of a column of any dtype
ParseValue(v) ==
    IF v.t = "str" THEN ParseText(v.s) ELSE [ok |-> TRUE, v |-> v]

\* pd.to_numeric(col, errors="coerce").fillna(0.0), cell by cell
CoerceFill0(v) ==
    LET p == ParseValue(v)
    IN IF p.ok /\ p.v.t = "num" THEN p.v.n ELSE 0

RECURSIVE NatText(_)
\* the decimal digits of a natural number
NatText(n) ==
    IF n < 10 THEN <<Digits[n + 1]>>
    ELSE NatText(n \div 10) \o <<Digits[(n % 10) + 1]>>

\* the number's digits without its sign
NumberTextUnsigned(n) == IF n < 0 THEN NatText(0 - n) ELSE NatText(n)

\* the text a worksheet shows for a number cell
NumberText(n) == IF n < 0 THEN <<"-">> \o NatText(0 - n) ELSE NatText(n)

RECURSIVE TextLess(_, _)
\* Python's str ordering: lexicographic by code point
TextLess(a, b) ==
    IF b = <<>> THEN FALSE
    ELSE IF a = <<>> THEN TRUE
    ELSE IF CharCode[Head(a)] # CharCode[Head(b)]
         THEN CharCode[Head(a)] < CharCode[Head(b)]
    ELSE TextLess(Tail(a), Tail(b))

----------------------------------------------------------------------------
(* compute (src/app.py 171-187) *)

RECURSIVE MatchesOf(_, _)
\* the rows of the right table whose Component equals name, in the right table's order
MatchesOf(name, right) ==
    IF right = <<>> THEN <<>>
    ELSE (IF Head(right).Component = name THEN <<Head(right)>> ELSE <<>>)
         \o MatchesOf(name, Tail(right))

RECURSIVE MergeInner(_, _)
\* the join with how="inner": a left row without a match is dropped
MergeInner(left, right) ==
    IF left = <<>> THEN <<>>
    ELSE LET l == Head(left)
             ms == MatchesOf(l.Component, right)
         IN [i \in 1..Len(ms) |->
                [Component |-> l.Component, UOM |-> l.UOM,
                 Per_Case |-> l.Per_Case, On_Hand |-> ms[i].On_Hand]]
            \o MergeInner(Tail(left), right)

RECURSIVE MergeLeft(_, _)
\* comps.merge(onhand, on="Component", how="left"): left order kept, one row per
\* matching right row, one row with On_Hand missing when nothing matches
MergeLeft(left, right) ==
    IF left = <<>> THEN <<>>
    ELSE LET l == Head(left)
             ms == MatchesOf(l.Component, right)
             joined == IF ms = <<>>
                       THEN << [Component |-> l.Component, UOM |-> l.UOM,
                                Per_Case |-> l.Per_Case, On_Hand |-> NaN] >>
                       ELSE [i \in 1..Len(ms) |->
                                [Component |-> l.Component, UOM |-> l.UOM,
                                 Per_Case |-> l.Per_Case, On_Hand |-> ms[i].On_Hand]]
         IN joined \o MergeLeft(Tail(left), right)

\* lines 172-177: the joined frame with Per_Case, On_Hand coerced and
\* Required, Remaining added
ComputeFrame(cs, oh, c) ==
    LET df == MergeLeft(cs, oh)
    IN [i \in 1..Len(df) |->
          LET per == CoerceFill0(df[i].Per_Case)
              on  == CoerceFill0(df[i].On_Hand)
          IN [Component |-> df[i].Component, UOM |-> df[i].UOM,
              On_Hand |-> on, Per_Case |-> per,
              Required |-> per * c, Remaining |-> on - per * c]]

RECURSIVE RowsAt(_, _, _)
\* df[mask]: the rows whose index is in keep, in order, from row i on
RowsAt(df, keep, i) ==
    IF i > Len(df) THEN <<>>
    ELSE (IF i \in keep THEN <<df[i]>> ELSE <<>>) \o RowsAt(df, keep, i + 1)

\* line 179: df["Per_Case"] > 0
IsCandidate(r) == r.Per_Case > 0

\* the row whose ratio is greatest: .max() in place of .min()
MaxRatioRow(cand) ==
    CHOOSE r \in {cand[i] : i \in 1..Len(cand)} :
        \A j \in 1..Len(cand) :
            r.On_Hand * cand[j].Per_Case >= cand[j].On_Hand * r.Per_Case

\* (candidates["On_Hand"]/candidates["Per_Case"]).min(): a row whose ratio is least
MinRatioRow(cand) ==
    CHOOSE r \in {cand[i] : i \in 1..Len(cand)} :
        \A j \in 1..Len(cand) :
            r.On_Hand * cand[j].Per_Case <= cand[j].On_Hand * r.Per_Case

\* the least ratio rounded up in place of down (math.ceil for math.floor)
MaxSellableCeil(df) ==
    LET candidates == RowsAt(df, {i \in 1..Len(df) : IsCandidate(df[i])}, 1)
    IN IF candidates # <<>>
       THEN LET m == MinRatioRow(candidates)
            IN 0 - ((0 - m.On_Hand) \div m.Per_Case)
       ELSE 0

\* lines 179-183
MaxSellable(df) ==
    LET candidates == RowsAt(df, {i \in 1..Len(df) : IsCandidate(df[i])}, 1)
    IN IF candidates # <<>>
       THEN LET m == MinRatioRow(candidates) IN m.On_Hand \div m.Per_Case
       ELSE 0

\* the test with <= in place of <
IsShortOrEven(r) == r.Remaining <= 0

\* line 185: df["Remaining"] < 0
IsShort(r) == r.Remaining < 0

Shortages(df) == RowsAt(df, {i \in 1..Len(df) : IsShort(df[i])}, 1)

RECURSIVE InsertSorted(_, _)
InsertSorted(r, sorted) ==
    IF sorted = <<>> THEN <<r>>
    ELSE IF TextLess(r.Component.s, Head(sorted).Component.s)
         THEN <<r>> \o sorted
         ELSE <<Head(sorted)>> \o InsertSorted(r, Tail(sorted))

RECURSIVE SortByComponent(_)
\* line 186: df.sort_values("Component")
SortByComponent(df) ==
    IF df = <<>> THEN <<>>
    ELSE InsertSorted(df[Len(df)], SortByComponent(SubSeq(df, 1, Len(df) - 1)))

\* compute(comps, onhand, cases)
Compute(cs, oh, c) ==
    LET df == ComputeFrame(cs, oh, c)
    IN [display |-> SortByComponent(df),
        max_sellable |-> MaxSellable(df),
        shortages |-> Shortages(df)]

\* edited[["Component","On_Hand"]]
OnHandProjection(ed) ==
    [i \in 1..Len(ed) |-> [Component |-> ed[i].Component, On_Hand |-> ed[i].On_Hand]]

\* a worksheet of the store, and a worksheet that is not there
Sheet(cells) == [exists |-> TRUE, cells |-> cells]
NoSheet == [exists |-> FALSE, cells |-> <<>>]

\* no writeback yet
NoSync  == [status |-> "none", at |-> "none", values |-> <<>>, loads |-> 0]

----------------------------------------------------------------------------
(* Configuration (src/app.py 37-103) *)

\* Python's None
None == "<None>"

\* truthiness of None and of str
Truthy(v) == v # None /\ v # ""

\* dict.get(k)
Get(d, k) == IF k \in DOMAIN d THEN d[k] ELSE None

\* a dict with some of the keys, each value drawn from vals
Dicts(keys, vals) == UNION {[ks -> vals] : ks \in SUBSET keys}

QueryKeys  == {"sheet_id", "formula_ws", "inventory_ws"}
SecretKeys == {"SHEET_ID", "FORMULA_WS", "INVENTORY_WS"}

\* nothing configured: no query parameter, no secret, nothing typed
DefaultConfig == [qp |-> <<>>, secrets |-> <<>>, app |-> <<>>, manual |-> None]
Unresolved    == [SHEET_ID |-> None, FORMULA_WS |-> None, INVENTORY_WS |-> None]

\* lines 37-68 without the manual-entry widgets: the value resolve_sheet_id returns
ResolveSheetId(cfg) ==
    IF "sheet_id" \in DOMAIN cfg.qp /\ Truthy(cfg.qp["sheet_id"]) THEN cfg.qp["sheet_id"]
    ELSE IF Truthy(Get(cfg.secrets, "SHEET_ID")) THEN Get(cfg.secrets, "SHEET_ID")
    ELSE IF Truthy(Get(cfg.app, "SHEET_ID")) THEN Get(cfg.app, "SHEET_ID")
    ELSE cfg.manual

\* lines 70-90 for one of the two names: the default, overwritten in turn by the
\* query parameter, the top-level secret and the [app] secret
ResolveWsName(cfg, default, qkey, skey) ==
    LET n1 == IF qkey \in DOMAIN cfg.qp /\ Truthy(cfg.qp[qkey]) THEN cfg.qp[qkey] ELSE default
        n2 == IF Truthy(Get(cfg.secrets, skey)) THEN cfg.secrets[skey] ELSE n1
        n3 == IF Truthy(Get(cfg.app, skey)) THEN cfg.app[skey] ELSE n2
    IN n3

\* lines 92-94
ResolveAll(cfg) ==
    [SHEET_ID     |-> ResolveSheetId(cfg),
     FORMULA_WS   |-> ResolveWsName(cfg, "FORMULA", "formula_ws", "FORMULA_WS"),
     INVENTORY_WS |-> ResolveWsName(cfg, "INVENTORY", "inventory_ws", "INVENTORY_WS")]

\* what the user may type into "Google Sheet ID or full URL", as the pieces
\* between the slashes
ManualInputs ==
    { <<"m">>,
      <<"https:", "", "docs.google.com", "spreadsheets", "d", "u", "edit">> }

RECURSIVE AfterD(_)
\* lines 60-64: txt.split("/d/")[1].split("/")[0] when "/d/" is in txt, else txt
\* (a piece "d" with a piece on either side is a "/d/")
AfterD(parts) ==
    IF Len(parts) < 3 THEN <<>>
    ELSE IF parts[2] = "d" THEN <<parts[3]>>
    ELSE AfterD(Tail(parts))

\* a text without "/d/" is kept whole; such inputs are a single piece here
ExtractSheetId(parts) ==
    IF AfterD(parts) # <<>> THEN AfterD(parts)[1] ELSE parts[1]

InitConfig ==
    /\ config \in [qp : Dicts(QueryKeys, {"", "q"}),
                   secrets : Dicts(SecretKeys, {"", "s"}),
                   app : Dicts(SecretKeys, {"a"}),
                   manual : {None}]
    /\ resolved = Unresolved
    /\ pc = "boot"
    /\ formulaSheet = NoSheet
    /\ invSheet = NoSheet
    /\ comps = <<>> /\ onhand = <<>> /\ edits = <<>> /\ edited = <<>>
    /\ cases = 0 /\ display = <<>> /\ max_sell = 0 /\ shortages = <<>>
    /\ sync = NoSync
    /\ writers = <<>>
    /\ lastWriter = 0

\* lines 92-103: the script's configuration step; st.stop() without a sheet id
ResolveConfig ==
    /\ pc = "boot"
    /\ resolved' = ResolveAll(config)
    /\ pc' = IF Truthy(ResolveSheetId(config)) THEN "configured" ELSE "need_sheet_id"
    /\ UNCHANGED <<formulaSheet, invSheet, frameVars, config, raceVars>>

\* lines 57-66: "Use this Sheet" stores the typed id and reruns the script
UseThisSheet(parts) ==
    /\ pc = "need_sheet_id"
    /\ config' = [config EXCEPT !.manual = ExtractSheetId(parts)]
    /\ pc' = "boot"
    /\ UNCHANGED <<formulaSheet, invSheet, frameVars, resolved, raceVars>>

NextConfig ==
    \/ ResolveConfig
    \/ \E parts \in ManualInputs : UseThisSheet(parts)

SpecConfig == InitConfig /\ [][NextConfig]_vars

----------------------------------------------------------------------------
(* Worksheets and DataFrames *)

\* a DataFrame: column labels and rows of Values
EmptyFrame == [cols |-> <<>>, rows |-> <<>>]

HasCol(df, label) == \E j \in 1..Len(df.cols) : df.cols[j] = label

\* position of the (first) column carrying the label
ColIndex(df, label) ==
    CHOOSE j \in 1..Len(df.cols) :
        df.cols[j] = label /\ \A k \in 1..(j - 1) : df.cols[k] # label

\* lines 118-126: header from the first row, then every column that parses
\* as a whole becomes numeric, any other column keeps its text
ReadWsDf(vals) ==
    IF vals = <<>> THEN EmptyFrame
    ELSE LET cols == vals[1]
             body == Tail(vals)
             numeric == {j \in 1..Len(cols) :
                            \A i \in 1..Len(body) : ParseText(body[i][j]).ok}
         IN [cols |-> cols,
             rows |-> [i \in 1..Len(body) |->
                         [j \in 1..Len(cols) |->
                             IF j \in numeric THEN ParseText(body[i][j]).v
                             ELSE Str(body[i][j])]]]

\* an empty on-hand list in place of the zero-stock rows
NoOnHand(cs) == <<>>

\* line 159: the on-hand list made up when INVENTORY lacks a needed column
ZeroOnHand(cs) ==
    [i \in 1..Len(cs) |-> [Component |-> cs[i].Component, On_Hand |-> Num(0)]]

\* lines 128-161; st.stop() is status "halt"
LoadData(fs, is) ==
    LET halt(why) == [status |-> why, comps |-> <<>>, onhand |-> <<>>]
    IN IF ~fs.exists THEN halt("no_formula_ws")
       ELSE IF ~is.exists THEN halt("no_inventory_ws")
       ELSE LET formula == ReadWsDf(fs.cells)
                inv == ReadWsDf(is.cells)
            IN IF ~(HasCol(formula, ComponentHdr) /\ HasCol(formula, PerCaseHdr))
               THEN halt("schema")
               ELSE LET cs == [i \in 1..Len(formula.rows) |->
                                 [Component |-> formula.rows[i][ColIndex(formula, ComponentHdr)],
                                  Per_Case |-> formula.rows[i][ColIndex(formula, PerCaseHdr)],
                                  UOM |-> IF HasCol(formula, UomHdr)
                                          THEN formula.rows[i][ColIndex(formula, UomHdr)]
                                          ELSE Str(<<>>)]]
                        oh == IF HasCol(inv, ComponentHdr) /\ HasCol(inv, OnHandHdr)
                              THEN [i \in 1..Len(inv.rows) |->
                                      [Component |-> inv.rows[i][ColIndex(inv, ComponentHdr)],
                                       On_Hand |-> inv.rows[i][ColIndex(inv, OnHandHdr)]]]
                              ELSE ZeroOnHand(cs)
                    IN [status |-> "ok", comps |-> cs, onhand |-> oh]

\* lines 219-223: the frame handed to the data editor
Base(cs, oh) ==
    LET b == MergeLeft(cs, oh)
    IN [i \in 1..Len(b) |->
          [Component |-> b[i].Component, UOM |-> b[i].UOM,
           On_Hand |-> Num(CoerceFill0(b[i].On_Hand)), Per_Case |-> b[i].Per_Case]]

\* line 222: st.data_editor returns its input with the session's edits applied
ApplyEdits(base, e) ==
    [i \in 1..Len(base) |->
        IF i \in DOMAIN e THEN [base[i] EXCEPT !.On_Hand = e[i]] ELSE base[i]]

----------------------------------------------------------------------------
(* write_onhand (src/app.py 163-169) *)

\* the text a worksheet holds for a written value
CellText(v) ==
    IF v.t = "num" THEN NumberText(v.n)
    ELSE IF v.t = "str" THEN v.s
    ELSE <<>>

\* lines 165-167: header, then Component and the coerced On_Hand of every row
OnHandValues(ed) ==
    << <<Str(ComponentHdr), Str(OnHandHdr)>> >> \o
    [i \in 1..Len(ed) |->
        << IF ed[i].Component.t = "nan" THEN Str(<<>>) ELSE ed[i].Component,
           Num(CoerceFill0(ed[i].On_Hand)) >>]

\* a clear that leaves the worksheet as it was
ClearWsNothing(cells) == cells

\* line 168: ws.clear()
ClearWs(cells) == <<>>

Max(a, b) == IF a >= b THEN a ELSE b

Width(grid) == IF grid = <<>> THEN 0 ELSE Len(grid[1])

\* the grid written below the rows already there (append_rows in place of update)
UpdateWsAppend(cells, values) ==
    cells \o [i \in 1..Len(values) |-> [j \in 1..Len(values[i]) |-> CellText(values[i][j])]]

\* line 169: ws.update(values) writes the grid at A1 and touches no other cell
UpdateWs(cells, values) ==
    LET R == Max(Len(cells), Len(values))
        W == Max(Width(cells), Width(values))
    IN [i \in 1..R |->
          [j \in 1..W |->
              IF i <= Len(values) /\ j <= Len(values[i]) THEN CellText(values[i][j])
              ELSE IF i <= Len(cells) /\ j <= Len(cells[i]) THEN cells[i][j]
              ELSE <<>>]]

FailPoints == {"none", "open", "clear", "update"}

\* write_onhand that puts the old contents back when ws.update raises
WriteOnhandRollback(cells, ed, failAt) ==
    LET values == OnHandValues(ed)
    IN [cells  |-> IF failAt \in {"open", "clear", "update"} THEN cells
                   ELSE UpdateWs(ClearWs(cells), values),
        raised |-> failAt # "none",
        values |-> values,
        edited |-> ed]

\* write_onhand with the call named by failAt raising: the worksheet afterwards,
\* whether it raised, the values handed to ws.update and the caller's frame
WriteOnhand(cells, ed, failAt) ==
    LET values == OnHandValues(ed)
    IN [cells  |-> IF failAt \in {"open", "clear"} THEN cells
                   ELSE IF failAt = "update" THEN ClearWs(cells)
                   ELSE UpdateWs(ClearWs(cells), values),
        raised |-> failAt # "none",
        values |-> values,
        edited |-> ed]

----------------------------------------------------------------------------
(* One session: every interaction reruns the script (src/app.py 201-266) *)

\* largest number of On_Hand cells the user has typed over
MaxEdits == 1

EditValues == { Num(5), NaN }
FlowCases  == { 0, 2 }

FormulaHdr3 == <<ComponentHdr, PerCaseHdr, UomHdr>>

FormulaSheets ==
    { Sheet(<< FormulaHdr3, << <<"a">>, <<"2">>, <<"m">> >>, << <<"B">>, <<"1">>, <<>> >> >>),
      Sheet(<< <<ComponentHdr, PerCaseHdr>>, << <<"Z">>, <<"1">> >> >>),
      Sheet(<< FormulaHdr3, << <<"B">>, <<"x">>, <<>> >>, << <<"a">>, <<"0">>, <<"m">> >> >>),
      Sheet(<< <<ComponentHdr, UomHdr>>, << <<"a">>, <<"m">> >> >>),
      Sheet(<< FormulaHdr3 >>),
      NoSheet }

InvSheets ==
    { NoSheet,
      Sheet(<<>>),
      Sheet(<< <<ComponentHdr, OnHandHdr>>, << <<"a">>, <<"3">> >>, << <<"B">>, <<"2">> >> >>),
      Sheet(<< <<ComponentHdr, OnHandHdr, NotesHdr>>,
               << <<"B">>, <<"x">>, <<>> >>,
               << <<"Z">>, <<"1">>, <<"n">> >>,
               << <<"a">>, <<"-", "1">>, <<>> >>,
               << <<"Z">>, <<"0">>, <<>> >> >>),
      Sheet(<< <<ComponentHdr, OnHandHdr>>, << <<"a">>, <<"3">> >>, << <<"a">>, <<"1">> >>,
               << <<"B">>, <<>> >> >>),
      Sheet(<< <<ComponentHdr, NotesHdr>>, << <<"a">>, <<"n">> >> >>) }

Init ==
    /\ formulaSheet \in FormulaSheets
    /\ invSheet \in InvSheets
    /\ pc = "start"
    /\ comps = <<>>
    /\ onhand = <<>>
    /\ edits = <<>>
    /\ edited = <<>>
    /\ cases = 0
    /\ display = <<>>
    /\ max_sell = 0
    /\ shortages = <<>>
    /\ sync = NoSync
    /\ config = DefaultConfig
    /\ resolved = Unresolved
    /\ writers = <<>>
    /\ lastWriter = 0

\* One run of the script. The editor state is kept under key "edit_table"; when
\* the frame handed to the editor differs from the previous run's, the widget
\* may also start afresh (fresh). typed is what the user typed in this
\* interaction, c the order size, syncing says the Sync button was pressed and
\* failAt which call of write_onhand raises.
Script(fresh, typed, c, syncing, failAt) ==
    \E ld \in {LoadData(formulaSheet, invSheet)} :
       IF ld.status # "ok"
       THEN /\ ~fresh
            /\ pc' = "halted"
            /\ UNCHANGED <<formulaSheet, invSheet, frameVars, configVars, raceVars>>
       ELSE \E base \in {Base(ld.comps, ld.onhand)} :
            \E e \in {typed @@ (IF fresh THEN <<>> ELSE edits)} :
            \E w \in {IF syncing
                      THEN WriteOnhand(invSheet.cells, ApplyEdits(base, e), failAt)
                      ELSE [cells |-> invSheet.cells, raised |-> FALSE,
                            values |-> <<>>, edited |-> ApplyEdits(base, e)]} :
            \E r \in {Compute(ld.comps, OnHandProjection(w.edited), c)} :
               /\ fresh => base # Base(comps, onhand)
               /\ DOMAIN typed \subseteq 1..Len(base)
               /\ Cardinality(DOMAIN e) <= MaxEdits
               /\ pc' = "idle"
               /\ comps' = ld.comps
               /\ onhand' = ld.onhand
               /\ edits' = e
               /\ edited' = w.edited
               /\ cases' = c
               /\ display' = r.display
               /\ max_sell' = r.max_sellable
               /\ shortages' = r.shortages
               /\ invSheet' = [invSheet EXCEPT !.cells = w.cells]
               /\ sync' = IF syncing
                          THEN [status |-> IF w.raised THEN "failed" ELSE "ok",
                                at |-> failAt,
                                values |-> IF w.raised THEN <<>> ELSE w.values,
                                loads |-> 0]
                          ELSE IF sync.status = "ok" THEN [sync EXCEPT !.loads = 1]
                          ELSE NoSync
               /\ UNCHANGED <<formulaSheet, configVars, raceVars>>

\* the first run of the session
Start ==
    /\ pc = "start"
    /\ Script(FALSE, <<>>, 0, FALSE, "none")

\* the user types v into the On_Hand cell of row i
EditOnHand(i, v) ==
    /\ pc = "idle"
    /\ i \in 1..Len(edited)
    /\ \E fresh \in BOOLEAN : Script(fresh, (i :> v), cases, FALSE, "none")

\* the user types a new order size
SetCases(c) ==
    /\ pc = "idle"
    /\ c # cases
    /\ \E fresh \in BOOLEAN : Script(fresh, <<>>, c, FALSE, "none")

\* "Reload from Sheet" and "Revert to current sheet values": st.rerun()
Reload ==
    /\ pc = "idle"
    /\ \E fresh \in BOOLEAN : Script(fresh, <<>>, cases, FALSE, "none")

\* "Sync On_Hand to Google Sheets"
Sync(failAt) ==
    /\ pc = "idle"
    /\ \E fresh \in BOOLEAN : Script(fresh, <<>>, cases, TRUE, failAt)

Next ==
    \/ Start
    \/ \E i \in 1..Len(edited), v \in EditValues : EditOnHand(i, v)
    \/ \E c \in FlowCases : SetCases(c)
    \/ Reload
    \/ \E f \in FailPoints : Sync(f)

Spec == Init /\ [][Next]_vars

----------------------------------------------------------------------------
(* Two sessions writing back to the same INVENTORY worksheet *)

\* largest number of rows a racing session writes
MaxWriteRows == 2

Sessions == {1, 2}
Other(w) == 3 - w

RaceRows == [Component : {Str(<<"a">>), Str(<<"B">>)}, UOM : {Str(<<>>)},
             On_Hand : {Num(1), Num(2)}, Per_Case : {NaN}]

RaceFrames == UNION {[1..k -> RaceRows] : k \in 0..MaxWriteRows}

RaceSheet ==
    Sheet(<< <<ComponentHdr, OnHandHdr, NotesHdr>>,
             << <<"B">>, <<"x">>, <<>> >>,
             << <<"Z">>, <<"1">>, <<"n">> >>,
             << <<"a">>, <<"-", "1">>, <<>> >>,
             << <<"Z">>, <<"0">>, <<>> >> >>)

InitRace ==
    /\ invSheet = RaceSheet
    /\ formulaSheet = NoSheet
    /\ writers \in [Sessions -> [pc : {"called"}, edited : RaceFrames,
                                 values : {<<>>}, clearedLate : {FALSE}]]
    /\ lastWriter = 0
    /\ pc = "race"
    /\ comps = <<>> /\ onhand = <<>> /\ edits = <<>> /\ edited = <<>>
    /\ cases = 0 /\ display = <<>> /\ max_sell = 0 /\ shortages = <<>>
    /\ sync = NoSync
    /\ config = DefaultConfig
    /\ resolved = Unresolved

\* lines 164-167: the worksheet is opened and the grid to write is built
WriterPrepare(w) ==
    /\ writers[w].pc = "called"
    /\ writers' = [writers EXCEPT ![w].pc = "prepared",
                                  ![w].values = OnHandValues(writers[w].edited)]
    /\ UNCHANGED <<formulaSheet, invSheet, pc, frameVars, configVars, lastWriter>>

\* line 168
WriterClear(w) ==
    /\ writers[w].pc = "prepared"
    /\ invSheet' = [invSheet EXCEPT !.cells = ClearWs(invSheet.cells)]
    /\ writers' = [writers EXCEPT ![w].pc = "cleared",
                                  ![w].clearedLate = (writers[Other(w)].pc = "done")]
    /\ UNCHANGED <<formulaSheet, pc, frameVars, configVars, lastWriter>>

\* line 169
WriterUpdate(w) ==
    /\ writers[w].pc = "cleared"
    /\ invSheet' = [invSheet EXCEPT !.cells = UpdateWs(invSheet.cells, writers[w].values)]
    /\ writers' = [writers EXCEPT ![w].pc = "done"]
    /\ lastWriter' = w
    /\ UNCHANGED <<formulaSheet, pc, frameVars, configVars>>

WriterStep(w) == WriterPrepare(w) \/ WriterClear(w) \/ WriterUpdate(w)

NextRace ==
    \/ \E w \in Sessions : WriterPrepare(w)
    \/ \E w \in Sessions : WriterClear(w)
    \/ \E w \in Sessions : WriterUpdate(w)

SpecRace == InitRace /\ [][NextRace]_vars

----------------------------------------------------------------------------
(* compute as a pure function: every input within the bounds *)

Names == { <<"B">>, <<"a">> }

PerCaseCells == { Num(0 - 1), Num(0), Num(1), Num(2), Str(<<"x">>) }
OnHandCells  == { Num(0 - 1), Num(0), Num(3), Str(<<"x">>) }

CompRows == [Component : {Str(n) : n \in Names}, Per_Case : PerCaseCells, UOM : {Str(<<>>)}]
EditedRows == [Component : {Str(n) : n \in Names}, UOM : {Str(<<>>)},
               On_Hand : OnHandCells, Per_Case : {NaN}]

InitCompute ==
    /\ formulaSheet = NoSheet
    /\ invSheet = NoSheet
    /\ pc = "compute"
    /\ \E k1 \in 0..MaxRows : \E k2 \in 0..(MaxRows - k1) :
          /\ comps \in [1..k1 -> CompRows]
          /\ edited \in [1..k2 -> EditedRows]
    /\ onhand = <<>>
    /\ edits = <<>>
    /\ cases = 0
    /\ LET r == Compute(comps, OnHandProjection(edited), 0)
       IN display = r.display /\ max_sell = r.max_sellable /\ shortages = r.shortages
    /\ sync = NoSync
    /\ config = DefaultConfig
    /\ resolved = Unresolved
    /\ writers = <<>>
    /\ lastWriter = 0

\* line 249-251: a new order size is typed and compute runs on it
Recompute(c) ==
    /\ pc = "compute"
    /\ c # cases
    /\ cases' = c
    /\ LET r == Compute(comps, OnHandProjection(edited), c)
       IN display' = r.display /\ max_sell' = r.max_sellable /\ shortages' = r.shortages
    /\ UNCHANGED <<formulaSheet, invSheet, pc, comps, onhand, edits, edited, sync,
                   configVars, raceVars>>

NextCompute == \E c \in 0..MaxCases : Recompute(c)

SpecCompute == InitCompute /\ [][NextCompute]_vars

----------------------------------------------------------------------------
(* Properties of compute, checked under SpecCompute *)

\* the pairs (component row, on-hand row) the left join puts side by side;
\* 0 stands for "no on-hand row of that name"
JoinPairs ==
    {<<i, j>> \in (1..Len(comps)) \X (1..Len(edited)) :
        comps[i].Component = edited[j].Component}
    \cup {<<i, 0>> : i \in {k \in 1..Len(comps) :
                              \A j \in 1..Len(edited) :
                                  comps[k].Component # edited[j].Component}}

PairPerCase(p) == CoerceFill0(comps[p[1]].Per_Case)
PairOnHand(p)  == IF p[2] = 0 THEN 0 ELSE CoerceFill0(edited[p[2]].On_Hand)

ConsumingPairs == {p \in JoinPairs : PairPerCase(p) > 0}

DisplaySet   == {display[i] : i \in 1..Len(display)}
ShortageSet  == {shortages[i] : i \in 1..Len(shortages)}

\* C1: max_sellable is the floor of the least on_hand / per_case over exactly the
\* joined rows with per_case > 0 (missing or unparseable cells counting as 0), is 0
\* when there is no such row, and is the same for every order size.
C1_MaxSellableIsFloorOfMinRatio ==
    pc = "compute" =>
        IF ConsumingPairs = {}
        THEN max_sell = 0
        ELSE /\ \A p \in ConsumingPairs : max_sell * PairPerCase(p) <= PairOnHand(p)
             /\ \E p \in ConsumingPairs : PairOnHand(p) < (max_sell + 1) * PairPerCase(p)

\* a least ratio that is not a whole number (3 / 2), next to a row that consumes
\* nothing, at a non-zero order size
C1_Witness ==
    /\ pc = "compute"
    /\ cases > 0
    /\ max_sell = 1
    /\ \E p \in ConsumingPairs : PairOnHand(p) = 3 /\ PairPerCase(p) = 2
    /\ \E p \in JoinPairs : PairPerCase(p) <= 0

\* C2 as stated: with some per_case > 0, an order of max_sellable cases leaves
\* no shortage and an order of max_sellable + 1 cases leaves one.
C2_AsStated ==
    (pc = "compute" /\ ConsumingPairs # {}) =>
        /\ cases = max_sell => shortages = <<>>
        /\ cases = max_sell + 1 => shortages # <<>>

\* C2 amended: the same, for inputs in which no joined row has a negative on_hand.
C2_MaxSellableIsLargestOrder ==
    (pc = "compute" /\ ConsumingPairs # {} /\ \A p \in JoinPairs : PairOnHand(p) >= 0) =>
        /\ cases = max_sell => shortages = <<>>
        /\ cases = max_sell + 1 => shortages # <<>>

\* an order one above max_sellable with stock on every row
C2_Witness ==
    /\ pc = "compute"
    /\ ConsumingPairs # {}
    /\ \A p \in JoinPairs : PairOnHand(p) > 0
    /\ max_sell = 1
    /\ cases = 2
    /\ shortages # <<>>

\* C3: shortages is exactly the set of joined rows with
\* remaining = on_hand - per_case * cases < 0; a row with remaining = 0 is not in it.
C3_ShortagesAreNegativeRemaining ==
    pc = "compute" =>
        /\ \A r \in DisplaySet : r.Remaining = r.On_Hand - r.Per_Case * cases
        /\ \A r \in DisplaySet : r.Remaining < 0 <=> r \in ShortageSet
        /\ ShortageSet \subseteq DisplaySet

\* one row exactly used up and one row short, in the same order
C3_Witness ==
    /\ pc = "compute"
    /\ cases > 0
    /\ \E r \in DisplaySet : r.Remaining = 0 /\ r.Per_Case > 0 /\ r \notin ShortageSet
    /\ \E r \in ShortageSet : r.Remaining < 0

UniqueComponents ==
    \A i, j \in 1..Len(comps) : comps[i].Component = comps[j].Component => i = j

RowsNamed(rows, name) == {i \in 1..Len(rows) : rows[i].Component = name}

SortedByComponent ==
    \A i, j \in 1..Len(display) :
        i < j => ~TextLess(display[j].Component.s, display[i].Component.s)

\* C10 as stated: with unique component names and any on-hand list, display has
\* exactly one row per component.
C10_AsStated ==
    (pc = "compute" /\ UniqueComponents) =>
        \A i \in 1..Len(comps) :
            Cardinality(RowsNamed(display, comps[i].Component)) = 1

\* C10 amended: with unique component names, display has for each component one
\* row per on-hand row of that name, and one row with On_Hand = 0 when there is
\* none; it has no row for any other name, and is ordered by Component ascending.
C10_LeftJoinSorted ==
    (pc = "compute" /\ UniqueComponents) =>
        /\ \A i \in 1..Len(comps) :
              LET k == Cardinality(RowsNamed(edited, comps[i].Component))
                  rows == RowsNamed(display, comps[i].Component)
              IN /\ Cardinality(rows) = Max(1, k)
                 /\ k = 0 => \A d \in rows : display[d].On_Hand = 0
        /\ \A d \in 1..Len(display) :
              \E i \in 1..Len(comps) : comps[i].Component = display[d].Component
        /\ SortedByComponent

\* two components given out of order, one with an on-hand row and one without
C10_Witness ==
    /\ pc = "compute"
    /\ UniqueComponents
    /\ Len(comps) = 2
    /\ TextLess(comps[2].Component.s, comps[1].Component.s)
    /\ Len(edited) = 1
    /\ CoerceFill0(edited[1].On_Hand) = 3
    /\ \E i \in 1..2 : RowsNamed(edited, comps[i].Component) = {}
    /\ Len(display) = 2
    /\ cases > 0

----------------------------------------------------------------------------
(* Properties of load_data and write_onhand, checked under Spec *)

\* the number a frame cell stands for once coerced: a missing value is 0
OnHandNumber(v) == IF v.t = "num" THEN v.n ELSE 0

\* C4: after a successful write_onhand the INVENTORY worksheet holds exactly the
\* header row (Component, On_Hand) and then one row per row of the edited frame,
\* in order, On_Hand being a number (a missing value written as 0) -- and
\* nothing else.
C4_WritebackReplacesTable ==
    (pc = "idle" /\ sync.status = "ok" /\ sync.loads = 0) =>
        /\ Len(invSheet.cells) = Len(edited) + 1
        /\ invSheet.cells[1] = <<ComponentHdr, OnHandHdr>>
        /\ \A i \in 1..Len(edited) :
              /\ Len(invSheet.cells[i + 1]) = 2
              /\ invSheet.cells[i + 1][1] = edited[i].Component.s
              /\ ParseText(invSheet.cells[i + 1][2]) =
                     [ok |-> TRUE, v |-> Num(OnHandNumber(edited[i].On_Hand))]

\* a writeback of two rows, one of them with its On_Hand cell emptied by the user
C4_Witness ==
    /\ pc = "idle" /\ sync.status = "ok" /\ sync.loads = 0
    /\ Len(edited) = 2
    /\ \E i \in 1..2 : edited[i].On_Hand = NaN
    /\ Len(invSheet.cells) = 3

\* C5: after a successful write_onhand, the next load_data returns an on-hand
\* list with exactly the written rows, each with the value written; the load
\* does not halt.
C5_WriteThenLoadRoundTrip ==
    /\ sync.status = "ok" => pc = "idle"
    /\ (pc = "idle" /\ sync.status = "ok" /\ sync.loads = 1) =>
          /\ Len(onhand) = Len(sync.values) - 1
          /\ \A i \in 1..Len(onhand) :
                /\ onhand[i].Component = sync.values[i + 1][1]
                /\ onhand[i].On_Hand = sync.values[i + 1][2]

\* a typed value and a negative value written, then loaded back
C5_Witness ==
    /\ pc = "idle" /\ sync.status = "ok" /\ sync.loads = 1
    /\ \E i \in 1..Len(onhand) : onhand[i].On_Hand = Num(5)
    /\ \E i \in 1..Len(onhand) : onhand[i].On_Hand = Num(0 - 1)

FormulaLoadable ==
    /\ formulaSheet.exists
    /\ HasCol(ReadWsDf(formulaSheet.cells), ComponentHdr)
    /\ HasCol(ReadWsDf(formulaSheet.cells), PerCaseHdr)

AllZeroOnHand ==
    /\ Len(onhand) = Len(comps)
    /\ \A i \in 1..Len(comps) :
          onhand[i] = [Component |-> comps[i].Component, On_Hand |-> Num(0)]

ConsumersAreShort ==
    \A r \in DisplaySet : r.Per_Case > 0 => r \in ShortageSet

\* C6 as stated: with no INVENTORY worksheet in the store the load does not
\* halt and returns on_hand = 0 for every component.
C6_AsStated ==
    (pc # "start" /\ FormulaLoadable /\ ~invSheet.exists) =>
        (pc = "idle" /\ AllZeroOnHand)

InventoryLacksColumn ==
    \/ invSheet.cells = <<>>
    \/ ~HasCol(ReadWsDf(invSheet.cells), ComponentHdr)
    \/ ~HasCol(ReadWsDf(invSheet.cells), OnHandHdr)

\* C6 amended: with no INVENTORY worksheet the load halts. With an INVENTORY
\* worksheet that is empty, or lacks the Component or the On_Hand column, the
\* load does not halt and returns on_hand = 0 for every component of FORMULA,
\* so that, before any edit, an order of more than 0 cases reports every
\* component with per_case > 0 as a shortage.
C6_EmptyInventoryGivesZeroStock ==
    /\ (pc # "start" /\ ~invSheet.exists) => pc = "halted"
    /\ (pc # "start" /\ FormulaLoadable /\ invSheet.exists) => pc = "idle"
    /\ (pc = "idle" /\ sync.status # "failed" /\ InventoryLacksColumn) =>
          /\ AllZeroOnHand
          /\ (edits = <<>> /\ cases > 0) => ConsumersAreShort

\* an empty INVENTORY worksheet, two components, an order of 2 cases
C6_Witness ==
    /\ pc = "idle" /\ sync.status = "none"
    /\ invSheet.exists /\ invSheet.cells = <<>>
    /\ Len(comps) = 2
    /\ edits = <<>> /\ cases > 0
    /\ Len(shortages) = 2

\* C9: when write_onhand raises, the frame returned by the editor is unchanged
\* and is what the following compute uses; nothing is retried or put back: the
\* worksheet is as the raising call left it, empty when ws.update raised, and what
\* it was when the run's load read it when an earlier call raised.
C9_FailedWritebackNotRecovered ==
    (pc = "idle" /\ sync.status = "failed") =>
        /\ edited = ApplyEdits(Base(comps, onhand), edits)
        /\ LET r == Compute(comps, OnHandProjection(edited), cases)
           IN display = r.display /\ max_sell = r.max_sellable /\ shortages = r.shortages
        /\ sync.at = "update" => invSheet.cells = <<>>
        /\ sync.at \in {"open", "clear"} =>
              LoadData(formulaSheet, invSheet) =
                  [status |-> "ok", comps |-> comps, onhand |-> onhand]

\* ws.update raised after the user typed 5 into a cell of a sheet that had stock:
\* the worksheet is empty, the typed value still in the frame and in display
C9_Witness ==
    /\ pc = "idle" /\ sync.status = "failed" /\ sync.at = "update"
    /\ invSheet.cells = <<>>
    /\ \E i \in DOMAIN edits : edits[i] = Num(5) /\ edited[i].On_Hand = Num(5)
    /\ \E i \in 1..Len(onhand) : onhand[i].On_Hand = Num(3)
    /\ \E r \in DisplaySet : r.On_Hand = 5
    /\ cases > 0

----------------------------------------------------------------------------
(* Property of the configuration step, checked under SpecConfig *)

\* the first truthy of query parameter, top-level secret, [app] secret; else last
FirstOf(q, sec, app, last) ==
    IF Truthy(q) THEN q
    ELSE IF Truthy(sec) THEN sec
    ELSE IF Truthy(app) THEN app
    ELSE last

\* C7: the sheet id and both worksheet names are resolved in the same order:
\* query parameter, then top-level secret, then [app] secret, then the manual
\* value or the default.
C7_SamePriorityForAll ==
    pc \in {"configured", "need_sheet_id"} =>
        /\ resolved.SHEET_ID =
              FirstOf(Get(config.qp, "sheet_id"), Get(config.secrets, "SHEET_ID"),
                      Get(config.app, "SHEET_ID"), config.manual)
        /\ resolved.FORMULA_WS =
              FirstOf(Get(config.qp, "formula_ws"), Get(config.secrets, "FORMULA_WS"),
                      Get(config.app, "FORMULA_WS"), "FORMULA")
        /\ resolved.INVENTORY_WS =
              FirstOf(Get(config.qp, "inventory_ws"), Get(config.secrets, "INVENTORY_WS"),
                      Get(config.app, "INVENTORY_WS"), "INVENTORY")

----------------------------------------------------------------------------
(* Properties of racing writebacks, checked under SpecRace *)

GridText(values) ==
    [i \in 1..Len(values) |-> [j \in 1..Len(values[i]) |-> CellText(values[i][j])]]

BothDone == \A w \in Sessions : writers[w].pc = "done"

\* C8 as stated: once both writebacks are done the worksheet is exactly what the
\* session whose ws.update ran last wrote.
C8_AsStated ==
    BothDone => invSheet.cells = GridText(writers[lastWriter].values)

\* C8 amended: no step of a writeback waits for or looks at the worksheet; once
\* both are done the worksheet starts with exactly the header and rows of the
\* session whose ws.update ran last, and it ends there unless the other session's
\* ws.update ran between the last writer's clear and update and wrote more rows,
\* in which case the other session's extra rows follow.
C8_LastWriterOwnsItsRows ==
    /\ pc = "race" =>
          \A w \in Sessions : writers[w].pc # "done" => ENABLED WriterStep(w)
    /\ BothDone =>
          LET mine   == GridText(writers[lastWriter].values)
              theirs == GridText(writers[Other(lastWriter)].values)
              left   == ~writers[lastWriter].clearedLate /\ Len(theirs) > Len(mine)
              t      == invSheet.cells
          IN /\ Len(t) = IF left THEN Len(theirs) ELSE Len(mine)
             /\ \A i \in 1..Len(t) : t[i] = IF i <= Len(mine) THEN mine[i] ELSE theirs[i]

\* the last writer wrote one row, the other two: a row of the other is left over
C8_Witness ==
    /\ BothDone
    /\ Len(writers[lastWriter].values) = 2
    /\ Len(writers[Other(lastWriter)].values) = 3
    /\ Len(invSheet.cells) = 3
    /\ invSheet.cells[3] = GridText(writers[Other(lastWriter)].values)[3]
    /\ invSheet.cells[2] = GridText(writers[lastWriter].values)[2]
    /\ invSheet.cells[2] # GridText(writers[Other(lastWriter)].values)[2]

====
